---- MODULE Spec2Model ----
(***************************************************************************)
(* Outcome simulation and webhook delivery engine of the SMS mock server:  *)
(* app/main.py (send_message, make_call), app/providers/twilio.py          *)
(* (should_succeed), app/callbacks.py (CallbackHandler) and app/storage.py *)
(* (Storage).                                                              *)
(*                                                                         *)
(* Every progression run is a coroutine; its position is runs[r].pc:       *)
(*   idle         no request has produced this SID yet                     *)
(*   scheduled    background task added, not started                       *)
(*   sleep        in asyncio.sleep(delay_seconds)                          *)
(*   post         in client.post(...), attempt runs[r].attempt             *)
(*   log          answer received, create_callback_log not yet called      *)
(*   decide       send_callback returned to the retry loop                 *)
(*   retry_sleep  in asyncio.sleep(retry_delay_seconds)                    *)
(*   event        about to call create_delivery_event                      *)
(*   done         the coroutine returned                                   *)
(*   crashed      an exception left the coroutine                          *)
(* callback_logs and delivery_events are kept per SID (the SID in the      *)
(* payload, resp. the message_sid/call_sid column), each in insert order.  *)
(* trace[r] is a history variable: the operations run r performed.         *)
(***************************************************************************)
EXTENDS Integers, Sequences, FiniteSets, TLC

VARIABLES config, messages, calls, delivery_events, callback_logs, runs, trace, reply,
          segments

vars ==
    <<config, messages, calls, delivery_events, callback_logs, runs, trace, reply,
      segments>>

-----------------------------------------------------------------------------
(* Bounds *)

\* Largest value of callbacks.retry_attempts explored.
MaxAttempts == 2

\* Largest number of Delivery Events and of log entries per identifier in a
\* store filled through the Storage methods directly.
MaxRows == 2

\* The longest message body whose segments are counted.
MaxBodyLen == 320

-----------------------------------------------------------------------------
(* Program constants *)

\* response.text[:500]
BodyCap == 500

\* len("Error: ")
ErrorPrefixLen == 7

\* status_code=None in the logged entry of the exception path
NoCode == -1

\* the status code send_callback returns on the exception path
ExcCode == 0

\* JSONResponse(status_code=201, ...)
HttpCreated == 201

\* the status of a response that sets none
HttpOk == 200

NoUrl == "None"

MessageSids == {"SM1", "SM2"}

CallSids == {"CA1"}

Sids == MessageSids \cup CallSids

\* twilio.registered_numbers, twilio.failure_numbers, twilio.allowed_from_numbers
RegisteredNumbers == {"+15551234567", "+15550000009"}

FailureNumbers == {"+15559999999", "+15550000009"}

AllowedFromNumbers == {"+15550000001"}

\* Destinations a request may name: registered only, failure only, both, neither.
ToNumbers == {"+15551234567", "+15559999999", "+15550000009", "+19998887777"}

Urls == {NoUrl, "http://hook"}

AccountSid == "ACx"

-----------------------------------------------------------------------------
(* Pure helpers *)

Min(a, b) == IF a <= b THEN a ELSE b

Last(s) == s[Len(s)]

\* Mutant: the registered list is consulted before the failure list.
should_succeed_RegisteredFirst(to_number) ==
    IF to_number \in RegisteredNumbers THEN TRUE
    ELSE IF to_number \in FailureNumbers THEN FALSE
    ELSE config.default_behavior = "success"

\* Mutant: an unlisted destination never succeeds, default_behavior is not read.
should_succeed_ListsOnly(to_number) ==
    IF to_number \in FailureNumbers THEN FALSE
    ELSE to_number \in RegisteredNumbers

should_succeed(to_number) ==
    IF to_number \in FailureNumbers THEN FALSE
    ELSE IF to_number \in RegisteredNumbers THEN TRUE
    ELSE config.default_behavior = "success"

\* Mutant: an unlisted destination is held back only under default_behavior
\* "failure".
IsUnknownNumber_UnlessDefaultSuccess(to_number) ==
    /\ to_number \notin RegisteredNumbers
    /\ to_number \notin FailureNumbers
    /\ config.default_behavior = "failure"

\* Mutant: the early return is gone, every destination progresses.
IsUnknownNumber_Never(to_number) == FALSE

\* Mutant: the second "not" is lost.
IsUnknownNumber_LostNot(to_number) ==
    /\ to_number \notin RegisteredNumbers
    /\ to_number \in FailureNumbers

\* not to_in_registered and not to_in_failures
IsUnknownNumber(to_number) ==
    /\ to_number \notin RegisteredNumbers
    /\ to_number \notin FailureNumbers

\* Mutant: the success flow lists the creation status as well.
MessageStatuses_StartsQueued(will_succeed) ==
    IF will_succeed THEN <<"queued", "sent", "delivered">> ELSE <<"failed">>

\* Mutant: the two flows are attached to the wrong branches.
MessageStatuses_Inverted(will_succeed) ==
    IF will_succeed THEN <<"failed">> ELSE <<"sent", "delivered">>

MessageStatuses(will_succeed) ==
    IF will_succeed THEN <<"sent", "delivered">> ELSE <<"failed">>

\* Mutant: the success flow starts past "ringing".
CallStatuses_NoRinging(will_succeed) ==
    IF will_succeed THEN <<"in-progress", "completed">> ELSE <<"failed">>

CallStatuses(will_succeed) ==
    IF will_succeed THEN <<"ringing", "in-progress", "completed">> ELSE <<"failed">>

Statuses(r) ==
    IF r \in MessageSids THEN MessageStatuses(runs[r].will_succeed)
    ELSE CallStatuses(runs[r].will_succeed)

CurrentStatus(r) == Statuses(r)[runs[r].idx]

\* Mutant: the upper comparison is "<=".
IsSuccessCode_Through300(code) == 200 <= code /\ code <= 300

\* 200 <= response.status_code < 300
IsSuccessCode(code) == 200 <= code /\ code < 300

\* response.text[:500], as a length
Truncate(len) == Min(len, BodyCap)

\* The answers of the webhook target: an HTTP response or a raised exception.
HttpResp(code, len) == [kind |-> "http", code |-> code, len |-> len]

ExcResp(len) == [kind |-> "exc", code |-> NoCode, len |-> len]

NoResp == [kind |-> "none", code |-> NoCode, len |-> 0]

\* Answers drawn in the system-level specifications: a 2xx response, a non-2xx
\* response, a transport failure.
Responses == {HttpResp(200, 2), HttpResp(500, 12), ExcResp(30)}

\* Answers drawn when the repository may fail as well.
FaultResponses == {HttpResp(200, 2), ExcResp(30)}

\* Answers drawn when the runs of two resources interleave.
ConcResponses == {HttpResp(200, 2), HttpResp(500, 12)}

\* Answers drawn for single calls of send_callback: status codes around the 2xx
\* range, bodies and error descriptions around the 500-character cap.
ClientResponses ==
    {HttpResp(c, n) : c \in {199, 200, 299, 300, 404, 500},
                      n \in {0, BodyCap - 1, BodyCap, BodyCap + 1}}
    \cup {ExcResp(n) : n \in {0, 30, BodyCap - ErrorPrefixLen, BodyCap - ErrorPrefixLen + 1}}

\* Mutant: From and To are exchanged in the payload.
MessagePayload_SwappedNumbers(r, status) ==
    [MessageSid |-> r, AccountSid |-> AccountSid, From |-> runs[r].to_number,
     To |-> runs[r].from_number, MessageStatus |-> status, ApiVersion |-> "2010-04-01"]

MessagePayload(r, status) ==
    [MessageSid |-> r, AccountSid |-> AccountSid, From |-> runs[r].from_number,
     To |-> runs[r].to_number, MessageStatus |-> status, ApiVersion |-> "2010-04-01"]

CallPayload(r, status) ==
    [CallSid |-> r, AccountSid |-> AccountSid, From |-> runs[r].from_number,
     To |-> runs[r].to_number, CallStatus |-> status, ApiVersion |-> "2010-04-01",
     Direction |-> "outbound-api"]

Payload(r, status) ==
    IF r \in MessageSids THEN MessagePayload(r, status) ELSE CallPayload(r, status)

PayloadStatus(r, payload) ==
    IF r \in MessageSids THEN payload.MessageStatus ELSE payload.CallStatus

\* Segment limits of calculate_sms_segments: characters of a single-part and
\* of each part of a multi-part message, in GSM-7 and in UCS-2.
Gsm7SingleLimit == 160

Gsm7MultiLimit == 153

Ucs2SingleLimit == 70

Ucs2MultiLimit == 67

\* Mutant: floor division plus one instead of the ceiling division.
calculate_sms_segments_FloorPlusOne(length, non_ascii) ==
    IF length = 0 THEN 1
    ELSE LET single_limit == IF non_ascii THEN Ucs2SingleLimit ELSE Gsm7SingleLimit
             multi_limit == IF non_ascii THEN Ucs2MultiLimit ELSE Gsm7MultiLimit
         IN IF length <= single_limit THEN 1
            ELSE (length \div multi_limit) + 1

\* TemplateEngine.calculate_sms_segments(body), for a body of the given length
\* that does (non_ascii) or does not contain a character above code point 127.
calculate_sms_segments(length, non_ascii) ==
    IF length = 0 THEN 1
    ELSE LET single_limit == IF non_ascii THEN Ucs2SingleLimit ELSE Gsm7SingleLimit
             multi_limit == IF non_ascii THEN Ucs2MultiLimit ELSE Gsm7MultiLimit
         IN IF length <= single_limit THEN 1
            ELSE (length + multi_limit - 1) \div multi_limit

\* No segment count has been computed; num_segments 0 stands for "not yet".
NoSegments == [length |-> 0, non_ascii |-> FALSE, num_segments |-> 0]

\* The "deleted" part of a response that deleted nothing.
NoneDeleted == [messages |-> 0, calls |-> 0, callbacks |-> 0]

\* No creation request has been answered yet.
NoRequest ==
    [auth |-> TRUE, params |-> TRUE, phone_format |-> TRUE, From |-> "", To |-> "",
     StatusCallback |-> NoUrl]

NoReply ==
    [code |-> 0, status |-> "", deleted |-> NoneDeleted, error_type |-> "",
     request |-> NoRequest]

IdleRun ==
    [pc |-> "idle", from_number |-> "", to_number |-> "", callback_url |-> NoUrl,
     will_succeed |-> FALSE, idx |-> 0, attempt |-> 0, resp |-> NoResp,
     success |-> FALSE, status_code |-> NoCode, response_body |-> 0,
     in_except |-> FALSE, delivered |-> FALSE]

Op(op, status, attempt, code) ==
    [op |-> op, status |-> status, attempt |-> attempt, code |-> code]

Record(r, op, status, attempt, code) ==
    [trace EXCEPT ![r] = Append(@, Op(op, status, attempt, code))]

-----------------------------------------------------------------------------
(* Storage *)

\* Mutant: the WHERE clause compares with "!=", the other rows are written.
update_message_status_OtherRows(message_sid, status) ==
    [m \in DOMAIN messages |->
        IF m # message_sid THEN [messages[m] EXCEPT !.status = status] ELSE messages[m]]

\* Mutant: the UPDATE has no WHERE clause, every message row is written.
update_message_status_AllRows(message_sid, status) ==
    [m \in DOMAIN messages |-> [messages[m] EXCEPT !.status = status]]

update_message_status(message_sid, status) ==
    IF message_sid \in DOMAIN messages
    THEN [messages EXCEPT ![message_sid].status = status]
    ELSE messages

update_call_status(call_sid, status) ==
    IF call_sid \in DOMAIN calls
    THEN [calls EXCEPT ![call_sid].status = status]
    ELSE calls

\* Mutant: the SID is written to both reference columns.
create_delivery_event_BothIds(r, message_sid, call_sid, event_type, status) ==
    [delivery_events EXCEPT ![r] =
        Append(@, [message_sid |-> r, call_sid |-> r,
                   event_type |-> event_type, status |-> status])]

create_delivery_event(r, message_sid, call_sid, event_type, status) ==
    [delivery_events EXCEPT ![r] =
        Append(@, [message_sid |-> message_sid, call_sid |-> call_sid,
                   event_type |-> event_type, status |-> status])]

\* Mutant: attempt_number is not inserted, the column keeps its DEFAULT 1.
create_callback_log_DefaultAttempt(r, target_url, payload, status_code, response_body, attempt_number) ==
    [callback_logs EXCEPT ![r] =
        Append(@, [target_url |-> target_url, payload |-> payload,
                   status_code |-> status_code, response_body |-> response_body,
                   attempt_number |-> 1])]

create_callback_log(r, target_url, payload, status_code, response_body, attempt_number) ==
    [callback_logs EXCEPT ![r] =
        Append(@, [target_url |-> target_url, payload |-> payload,
                   status_code |-> status_code, response_body |-> response_body,
                   attempt_number |-> attempt_number])]

RECURSIVE RowCount(_, _)
\* SELECT COUNT(*) over a table held as one sequence per identifier.
RowCount(table, ids) ==
    IF ids = {} THEN 0
    ELSE LET r == CHOOSE x \in ids : TRUE
         IN Len(table[r]) + RowCount(table, ids \ {r})

\* DELETE FROM delivery_events WHERE message_sid IS NOT NULL
WithoutMessageEvents ==
    [r \in Sids |-> SelectSeq(delivery_events[r], LAMBDA e : e.message_sid = "None")]

\* DELETE FROM delivery_events WHERE call_sid IS NOT NULL
WithoutCallEvents ==
    [r \in Sids |-> SelectSeq(delivery_events[r], LAMBDA e : e.call_sid = "None")]

\* Mutant: DELETE FROM delivery_events without the WHERE clause.
clear_messages_AllEvents ==
    /\ reply' = [code |-> HttpOk, status |-> "messages",
                 deleted |-> [NoneDeleted EXCEPT !.messages = Cardinality(DOMAIN messages)],
                 error_type |-> "", request |-> NoRequest]
    /\ delivery_events' = [r \in Sids |-> <<>>]
    /\ messages' = <<>>
    /\ UNCHANGED <<config, segments, calls, callback_logs, runs, trace>>

\* POST /clear/messages: Storage.clear_messages and the endpoint's answer.
clear_messages ==
    /\ reply' = [code |-> HttpOk, status |-> "messages",
                 deleted |-> [NoneDeleted EXCEPT !.messages = Cardinality(DOMAIN messages)],
                 error_type |-> "", request |-> NoRequest]
    /\ delivery_events' = WithoutMessageEvents
    /\ messages' = <<>>
    /\ UNCHANGED <<config, segments, calls, callback_logs, runs, trace>>

\* POST /clear/calls
clear_calls ==
    /\ reply' = [code |-> HttpOk, status |-> "calls",
                 deleted |-> [NoneDeleted EXCEPT !.calls = Cardinality(DOMAIN calls)],
                 error_type |-> "", request |-> NoRequest]
    /\ delivery_events' = WithoutCallEvents
    /\ calls' = <<>>
    /\ UNCHANGED <<config, segments, messages, callback_logs, runs, trace>>

\* POST /clear/callbacks
clear_callbacks ==
    /\ reply' = [code |-> HttpOk, status |-> "callbacks",
                 deleted |-> [NoneDeleted EXCEPT !.callbacks = RowCount(callback_logs, Sids)],
                 error_type |-> "", request |-> NoRequest]
    /\ callback_logs' = [r \in Sids |-> <<>>]
    /\ UNCHANGED <<config, segments, messages, calls, delivery_events, runs, trace>>

\* POST /clear/all
clear_all ==
    /\ reply' = [code |-> HttpOk, status |-> "all",
                 deleted |-> [messages |-> Cardinality(DOMAIN messages),
                              calls |-> Cardinality(DOMAIN calls),
                              callbacks |-> RowCount(callback_logs, Sids)],
                 error_type |-> "", request |-> NoRequest]
    /\ delivery_events' = [r \in Sids |-> <<>>]
    /\ callback_logs' = [r \in Sids |-> <<>>]
    /\ messages' = <<>>
    /\ calls' = <<>>
    /\ UNCHANGED <<config, segments, runs, trace>>

-----------------------------------------------------------------------------
(* Initial state: the configuration is read once; the tables are empty. *)

Init ==
    /\ config \in [default_behavior : {"success", "failure"},
                   enabled : BOOLEAN,
                   retry_attempts : -1 .. MaxAttempts]
    /\ messages = <<>>
    /\ calls = <<>>
    /\ delivery_events = [r \in Sids |-> <<>>]
    /\ callback_logs = [r \in Sids |-> <<>>]
    /\ runs = [r \in Sids |-> IdleRun]
    /\ trace = [r \in Sids |-> <<>>]
    /\ reply = NoReply
    /\ segments = NoSegments

-----------------------------------------------------------------------------
(* API layer *)

\* Mutant: the parameters are checked before the credentials.
FirstError_ParametersFirst(req) ==
    IF ~req.params THEN [http_status |-> 400, error_type |-> "missing_parameter"]
    ELSE IF ~req.auth THEN [http_status |-> 401, error_type |-> "auth_failed"]
    ELSE IF ~req.phone_format
         THEN [http_status |-> 400, error_type |-> "invalid_phone_number"]
    ELSE IF req.From \notin AllowedFromNumbers
         THEN [http_status |-> 400, error_type |-> "invalid_from_number"]
    ELSE [http_status |-> 0, error_type |-> ""]

\* The endpoint's validations in its order: validate_auth, validate_parameters,
\* validate_phone_number(From, To), validate_from_number(From). The first one that
\* fails decides the answer; http_status 0 stands for "all passed".
FirstError(req) ==
    IF ~req.auth THEN [http_status |-> 401, error_type |-> "auth_failed"]
    ELSE IF ~req.params THEN [http_status |-> 400, error_type |-> "missing_parameter"]
    ELSE IF ~req.phone_format
         THEN [http_status |-> 400, error_type |-> "invalid_phone_number"]
    ELSE IF req.From \notin AllowedFromNumbers
         THEN [http_status |-> 400, error_type |-> "invalid_from_number"]
    ELSE [http_status |-> 0, error_type |-> ""]

\* The first failing validation's HTTP status, or 0 when the request is accepted.
Validate(req) == FirstError(req).http_status

\* JSONResponse(status_code=error["http_status"], content=<error template>)
RejectedReply(req) ==
    [code |-> FirstError(req).http_status, status |-> "", deleted |-> NoneDeleted,
     error_type |-> FirstError(req).error_type, request |-> req]

\* Mutant: the answer reports the outcome the destination is classified with.
AcceptedReply_ByOutcome(req) ==
    [code |-> HttpCreated,
     status |-> IF should_succeed(req.To) THEN "queued" ELSE "failed",
     deleted |-> NoneDeleted, error_type |-> "", request |-> req]

\* JSONResponse(status_code=201, content=<template rendered with status="queued">)
AcceptedReply(req) ==
    [code |-> HttpCreated, status |-> "queued", deleted |-> NoneDeleted,
     error_type |-> "", request |-> req]

\* Mutant: background_tasks.add_task is not called.
ScheduledRun_NotScheduled(req) == IdleRun

\* Mutant: the URL is handed to the run whether or not callbacks are enabled.
ScheduledRun_IgnoresEnabled(req) ==
    [IdleRun EXCEPT !.pc = "scheduled",
                    !.from_number = req.From,
                    !.to_number = req.To,
                    !.callback_url = req.StatusCallback,
                    !.will_succeed = should_succeed(req.To)]

\* The run the API schedules: the arguments of background_tasks.add_task.
ScheduledRun(req) ==
    [IdleRun EXCEPT !.pc = "scheduled",
                    !.from_number = req.From,
                    !.to_number = req.To,
                    !.callback_url =
                        IF req.StatusCallback # NoUrl /\ config.enabled
                        THEN req.StatusCallback ELSE NoUrl,
                    !.will_succeed = should_succeed(req.To)]

NewRecord(req) ==
    [status |-> "queued", from_number |-> req.From, to_number |-> req.To,
     callback_url |-> req.StatusCallback]

\* Mutant: the run is scheduled but storage.create_message is not called.
send_message_NoRecord(r, req) ==
    /\ r \in MessageSids
    /\ runs[r].pc = "idle"
    /\ IF Validate(req) # 0
       THEN /\ reply' = RejectedReply(req)
            /\ UNCHANGED runs
       ELSE /\ runs' = [runs EXCEPT ![r] = ScheduledRun(req)]
            /\ reply' = AcceptedReply(req)
    /\ UNCHANGED <<config, segments, messages, calls, delivery_events, callback_logs, trace>>

send_message(r, req) ==
    /\ r \in MessageSids
    /\ runs[r].pc = "idle"
    /\ IF Validate(req) # 0
       THEN /\ reply' = RejectedReply(req)
            /\ UNCHANGED <<messages, runs>>
       ELSE /\ messages' = messages @@ (r :> NewRecord(req))
            /\ runs' = [runs EXCEPT ![r] = ScheduledRun(req)]
            /\ reply' = AcceptedReply(req)
    /\ UNCHANGED <<config, segments, calls, delivery_events, callback_logs, trace>>

make_call(r, req) ==
    /\ r \in CallSids
    /\ runs[r].pc = "idle"
    /\ IF Validate(req) # 0
       THEN /\ reply' = RejectedReply(req)
            /\ UNCHANGED <<calls, runs>>
       ELSE /\ calls' = calls @@ (r :> NewRecord(req))
            /\ runs' = [runs EXCEPT ![r] = ScheduledRun(req)]
            /\ reply' = AcceptedReply(req)
    /\ UNCHANGED <<config, segments, messages, delivery_events, callback_logs, trace>>

\* Requests that pass every validation.
ValidRequests ==
    [auth : {TRUE}, params : {TRUE}, phone_format : {TRUE},
     From : AllowedFromNumbers, To : ToNumbers, StatusCallback : Urls]

-----------------------------------------------------------------------------
(* Progression driver: process_message_callbacks / process_call_callbacks *)

\* Entry of the coroutine up to the first await.
Start(r) ==
    /\ runs[r].pc = "scheduled"
    /\ IF IsUnknownNumber(runs[r].to_number)
       THEN /\ runs' = [runs EXCEPT ![r].pc = "done"]
            /\ UNCHANGED trace
       ELSE /\ runs' = [runs EXCEPT ![r].pc = "sleep", ![r].idx = 1]
            /\ trace' = Record(r, "sleep", "", 0, NoCode)
    /\ UNCHANGED <<config, segments, messages, calls, delivery_events, callback_logs, reply>>

\* Mutant: the retry loop is a do-while, one attempt is always made.
AfterUpdate_AtLeastOnce(callback_url, max_attempts) ==
    IF callback_url # NoUrl THEN "post" ELSE "event"

\* Mutant: the callback is never sent.
AfterUpdate_NeverPosts(callback_url, max_attempts) == "event"

\* Mutant: "if callback_url:" is gone, the callback is sent to whatever was given.
AfterUpdate_IgnoresUrl(callback_url, max_attempts) ==
    IF max_attempts >= 1 THEN "post" ELSE "event"

\* Where the loop body goes after the status update: into the retry loop's first
\* attempt, or past it when there is no URL or range(1, max_attempts + 1) is empty.
AfterUpdate(callback_url, max_attempts) ==
    IF callback_url # NoUrl /\ max_attempts >= 1 THEN "post" ELSE "event"

\* The sleep ends; the status of this iteration is written.
UpdateStatus(r) ==
    /\ runs[r].pc = "sleep"
    /\ IF r \in MessageSids
       THEN /\ messages' = update_message_status(r, CurrentStatus(r))
            /\ UNCHANGED calls
       ELSE /\ calls' = update_call_status(r, CurrentStatus(r))
            /\ UNCHANGED messages
    /\ runs' = [runs EXCEPT
                  ![r].pc = AfterUpdate(runs[r].callback_url, config.retry_attempts),
                  ![r].attempt = 1,
                  ![r].delivered = FALSE]
    /\ trace' = Record(r, "update", CurrentStatus(r), 0, NoCode)
    /\ UNCHANGED <<config, segments, delivery_events, callback_logs, reply>>

\* send_callback: client.post completes with an answer of the webhook target.
HttpPost(r, resp) ==
    /\ runs[r].pc = "post"
    /\ runs' = [runs EXCEPT ![r].pc = "log", ![r].resp = resp, ![r].in_except = (resp.kind = "exc")]
    /\ trace' = Record(r, "post", CurrentStatus(r), runs[r].attempt, resp.code)
    /\ UNCHANGED <<config, segments, messages, calls, delivery_events, callback_logs, reply>>

\* Mutant: the exception path logs the status code it returns.
LoggedCode_Returned(resp) == IF resp.kind = "http" THEN resp.code ELSE ExcCode

\* The status code and the body send_callback hands to create_callback_log.
LoggedCode(resp) == IF resp.kind = "http" THEN resp.code ELSE NoCode

LoggedBody(resp) ==
    IF resp.kind = "http" THEN Truncate(resp.len) ELSE ErrorPrefixLen + resp.len

\* The success flag send_callback returns.
Success(resp) == resp.kind = "http" /\ IsSuccessCode(resp.code)

\* The status code send_callback returns: response.status_code, or 0.
ReturnedCode(resp) == IF resp.kind = "http" THEN resp.code ELSE ExcCode

\* The body send_callback returns, as a length: response.text, or str(e).
ReturnedBody(resp) == resp.len

\* send_callback: the attempt is logged and the call returns.
LogAttempt(r) ==
    /\ runs[r].pc = "log"
    /\ callback_logs' = create_callback_log(r, runs[r].callback_url,
                            Payload(r, CurrentStatus(r)),
                            LoggedCode(runs[r].resp), LoggedBody(runs[r].resp),
                            runs[r].attempt)
    /\ runs' = [runs EXCEPT ![r].pc = "decide",
                            ![r].success = Success(runs[r].resp),
                            ![r].status_code = ReturnedCode(runs[r].resp),
                            ![r].response_body = ReturnedBody(runs[r].resp)]
    /\ trace' = Record(r, "log", CurrentStatus(r), runs[r].attempt, LoggedCode(runs[r].resp))
    /\ UNCHANGED <<config, segments, messages, calls, delivery_events, reply>>

\* Mutant: the coordinator returns after the first attempt, whatever it gave.
RetryNext_NoRetry(success, attempt, max_attempts) == "event"

\* Mutant: the delay is taken after every attempt that may be followed by
\* another, successful or not.
RetryNext_SleepsAfterSuccess(success, attempt, max_attempts) ==
    IF attempt < max_attempts THEN "retry_sleep" ELSE "event"

\* Mutant: the loop only ends on a success.
RetryNext_WaitsForSuccess(success, attempt, max_attempts) ==
    IF success THEN "event" ELSE "decide"

\* Mutant: "attempt <= max_attempts" guards the sleep, the loop runs once more.
RetryNext_OffByOne(success, attempt, max_attempts) ==
    IF success THEN "event"
    ELSE IF attempt <= max_attempts THEN "retry_sleep"
    ELSE "event"

\* Mutant: exhausted retries raise instead of returning False.
RetryNext_RaiseWhenExhausted(success, attempt, max_attempts) ==
    IF success THEN "event"
    ELSE IF attempt < max_attempts THEN "retry_sleep"
    ELSE "crashed"

\* send_callback_with_retry after send_callback returned: return, sleep, or fall
\* out of the loop.
RetryNext(success, attempt, max_attempts) ==
    IF success THEN "event"
    ELSE IF attempt < max_attempts THEN "retry_sleep"
    ELSE "event"

\* Mutant: the function falls through to "return False" on every path.
RetryResult_AlwaysFalse(success) == FALSE

\* The value send_callback_with_retry returns when it leaves the loop.
RetryResult(success) == success

Decide(r) ==
    /\ runs[r].pc = "decide"
    /\ LET next == RetryNext(runs[r].success, runs[r].attempt, config.retry_attempts)
       IN /\ runs' = [runs EXCEPT ![r].pc = next,
                                   ![r].delivered = RetryResult(runs[r].success)]
          /\ trace' = IF next = "retry_sleep"
                      THEN Record(r, "retry_sleep", CurrentStatus(r), runs[r].attempt, NoCode)
                      ELSE trace
    /\ UNCHANGED <<config, segments, messages, calls, delivery_events, callback_logs, reply>>

\* Mutant: the attempt number is not advanced by the loop.
RetryWake_NoIncrement(r) ==
    /\ runs[r].pc = "retry_sleep"
    /\ runs' = [runs EXCEPT ![r].pc = "post"]
    /\ UNCHANGED <<config, segments, messages, calls, delivery_events, callback_logs, trace, reply>>

\* The retry delay ends; the loop takes its next attempt.
RetryWake(r) ==
    /\ runs[r].pc = "retry_sleep"
    /\ runs' = [runs EXCEPT ![r].pc = "post", ![r].attempt = @ + 1]
    /\ UNCHANGED <<config, segments, messages, calls, delivery_events, callback_logs, trace, reply>>

\* Mutant: the sleep is taken after every status, the last included.
IsLastStatus_Never(r) == FALSE

\* status != statuses[-1]
IsLastStatus(r) == CurrentStatus(r) = Last(Statuses(r))

\* Mutant: create_delivery_event is not called.
CreateEvent_Skipped(r) ==
    /\ runs[r].pc = "event"
    /\ IF IsLastStatus(r)
       THEN /\ runs' = [runs EXCEPT ![r].pc = "done"]
            /\ UNCHANGED trace
       ELSE /\ runs' = [runs EXCEPT ![r].pc = "sleep", ![r].idx = @ + 1]
            /\ trace' = Record(r, "sleep", "", 0, NoCode)
    /\ UNCHANGED <<config, segments, messages, calls, delivery_events, callback_logs, reply>>

\* The Delivery Event is recorded; the loop sleeps or the coroutine returns.
CreateEvent(r) ==
    /\ runs[r].pc = "event"
    /\ delivery_events' =
          IF r \in MessageSids
          THEN create_delivery_event(r, r, "None", "status_update", CurrentStatus(r))
          ELSE create_delivery_event(r, "None", r, "status_update", CurrentStatus(r))
    /\ IF IsLastStatus(r)
       THEN /\ runs' = [runs EXCEPT ![r].pc = "done"]
            /\ trace' = Record(r, "event", CurrentStatus(r), 0, NoCode)
       ELSE /\ runs' = [runs EXCEPT ![r].pc = "sleep", ![r].idx = @ + 1]
            /\ trace' = [trace EXCEPT ![r] =
                            @ \o <<Op("event", CurrentStatus(r), 0, NoCode),
                                   Op("sleep", "", 0, NoCode)>>]
    /\ UNCHANGED <<config, segments, messages, calls, callback_logs, reply>>

-----------------------------------------------------------------------------
(* Faults of the repository: a storage call raises and writes nothing. *)

\* update_message_status / update_call_status raises: the exception leaves the coroutine.
UpdateStatusFault(r) ==
    /\ runs[r].pc = "sleep"
    /\ runs' = [runs EXCEPT ![r].pc = "crashed"]
    /\ trace' = Record(r, "raise", CurrentStatus(r), 0, NoCode)
    /\ UNCHANGED <<config, segments, messages, calls, delivery_events, callback_logs, reply>>

\* create_callback_log raises. On the response path the call sits inside the try
\* block, so "except Exception" catches it and logs again; on the exception path
\* the exception leaves send_callback, the retry loop and the coroutine.
LogFaultNext(in_except) == IF in_except THEN "crashed" ELSE "log"

LogAttemptFault(r) ==
    /\ runs[r].pc = "log"
    /\ runs' = [runs EXCEPT ![r].pc = LogFaultNext(runs[r].in_except),
                            ![r].in_except = TRUE,
                            ![r].resp = ExcResp(18)]
    /\ trace' = Record(r, "raise", CurrentStatus(r), runs[r].attempt, NoCode)
    /\ UNCHANGED <<config, segments, messages, calls, delivery_events, callback_logs, reply>>

\* create_delivery_event raises: the exception leaves the coroutine.
CreateEventFault(r) ==
    /\ runs[r].pc = "event"
    /\ runs' = [runs EXCEPT ![r].pc = "crashed"]
    /\ trace' = Record(r, "raise", CurrentStatus(r), 0, NoCode)
    /\ UNCHANGED <<config, segments, messages, calls, delivery_events, callback_logs, reply>>

-----------------------------------------------------------------------------
(* Specifications *)

Exists(r) == runs[r].pc # "idle"

\* No creation request has been accepted yet.
NoRequestYet == \A q \in Sids : runs[q].pc = "idle"

\* One accepted creation request, for a message or for a call.
Create ==
    \E r \in Sids, req \in ValidRequests :
        /\ NoRequestYet
        /\ (send_message(r, req) \/ make_call(r, req))

\* The next step of run r, the webhook target answering from answers.
RunStepWith(r, answers) ==
    \/ Start(r)
    \/ UpdateStatus(r)
    \/ \E resp \in answers : HttpPost(r, resp)
    \/ LogAttempt(r)
    \/ Decide(r)
    \/ RetryWake(r)
    \/ CreateEvent(r)

RunStep(r) == RunStepWith(r, Responses)

FaultStep(r) ==
    \/ UpdateStatusFault(r)
    \/ LogAttemptFault(r)
    \/ CreateEventFault(r)

Next == Create \/ \E r \in Sids : RunStep(r)

\* One resource, a repository that never fails.
Spec == Init /\ [][Next]_vars

NextFault ==
    \/ Create
    \/ \E r \in Sids : RunStepWith(r, FaultResponses)
    \/ \E r \in Sids : FaultStep(r)

\* One resource, a repository whose writes may raise.
SpecFault == Init /\ [][NextFault]_vars

\* Spec under fair scheduling: the event loop resumes every coroutine that can
\* run, every sleep ends and every HTTP call returns (10 s timeout).
SpecLive == Spec /\ \A r \in Sids : WF_vars(RunStep(r))

\* At most one resource exists.
AtMostOneResource == \A p, q \in Sids : (Exists(p) /\ Exists(q)) => p = q

\* Accepted creation requests while fewer than two resources exist. SIDs are
\* interchangeable names: the first message is called SM1.
CreateConc ==
    \E r \in Sids, req \in ValidRequests :
        /\ AtMostOneResource
        /\ r = "SM2" => Exists("SM1")
        /\ (send_message(r, req) \/ make_call(r, req))

NextConc == CreateConc \/ \E r \in Sids : RunStepWith(r, ConcResponses)

\* Two resources whose runs interleave step by step, a repository that never
\* fails.
SpecConc == Init /\ [][NextConc]_vars

\* A direct call send_callback(url, payload, attempt): no resource exists, the
\* caller supplies the payload's status and the attempt number.
InitClient ==
    /\ config = [default_behavior |-> "success", enabled |-> TRUE,
                 retry_attempts |-> MaxAttempts]
    /\ messages = <<>>
    /\ calls = <<>>
    /\ delivery_events = [r \in Sids |-> <<>>]
    /\ callback_logs = [r \in Sids |-> <<>>]
    /\ \E r \in Sids, w \in BOOLEAN, a \in 1 .. MaxAttempts :
          \E i \in 1 .. (IF w THEN (IF r \in MessageSids THEN 2 ELSE 3) ELSE 1) :
             runs = [q \in Sids |->
                        IF q = r
                        THEN [IdleRun EXCEPT !.pc = "post",
                                             !.from_number = "+15550000001",
                                             !.to_number = "+15551234567",
                                             !.callback_url = "http://hook",
                                             !.will_succeed = w,
                                             !.idx = i,
                                             !.attempt = a]
                        ELSE IdleRun]
    /\ trace = [r \in Sids |-> <<>>]
    /\ reply = NoReply
    /\ segments = NoSegments

NextClient ==
    \E r \in Sids :
        \/ \E resp \in ClientResponses : HttpPost(r, resp)
        \/ LogAttempt(r)

SpecClient == InitClient /\ [][NextClient]_vars

\* A record, a Delivery Event and a log entry as the Storage methods insert them.
StoredRecord(status) ==
    [status |-> status, from_number |-> "+15550000001", to_number |-> "+15551234567",
     callback_url |-> NoUrl]

StoredEvent(r) ==
    [message_sid |-> IF r \in MessageSids THEN r ELSE "None",
     call_sid |-> IF r \in CallSids THEN r ELSE "None",
     event_type |-> "status_update", status |-> "failed"]

StoredLog(r) ==
    [target_url |-> "http://hook", payload |-> [Sid |-> r], status_code |-> 200,
     response_body |-> 2, attempt_number |-> 1]

\* A store filled by direct calls of create_message, create_call,
\* create_delivery_event and create_callback_log; no run is scheduled.
InitStore ==
    /\ config = [default_behavior |-> "success", enabled |-> TRUE,
                 retry_attempts |-> MaxAttempts]
    /\ \E S \in SUBSET MessageSids : messages = [m \in S |-> StoredRecord("sent")]
    /\ \E S \in SUBSET CallSids : calls = [c \in S |-> StoredRecord("completed")]
    /\ \E n \in [Sids -> 0 .. MaxRows] :
          delivery_events = [r \in Sids |-> [k \in 1 .. n[r] |-> StoredEvent(r)]]
    /\ \E n \in [Sids -> 0 .. MaxRows] :
          callback_logs = [r \in Sids |-> [k \in 1 .. n[r] |-> StoredLog(r)]]
    /\ runs = [r \in Sids |-> IdleRun]
    /\ trace = [r \in Sids |-> <<>>]
    /\ reply = NoReply
    /\ segments = NoSegments

NextStore == clear_messages \/ clear_calls \/ clear_callbacks \/ clear_all

\* The administrative clear operations on a filled store.
SpecStore == InitStore /\ [][NextStore]_vars

\* Creation requests as the endpoints receive them: credentials that pass or
\* fail validate_auth, required parameters present or not, From and To numbers
\* that pass or fail validate_phone_number, and a From number inside or
\* outside allowed_from_numbers.
Requests ==
    ValidRequests \cup
    [auth : BOOLEAN, params : BOOLEAN, phone_format : BOOLEAN,
     From : AllowedFromNumbers \cup {"+15550000009"}, To : {"+15551234567"},
     StatusCallback : {NoUrl}]

\* A creation request of any kind. At most one is accepted; requests that fail
\* validation arrive at any time, also while the accepted one's run is in flight.
Request ==
    \E r \in Sids, req \in Requests :
        /\ NoRequestYet \/ Validate(req) # 0
        /\ (send_message(r, req) \/ make_call(r, req))

NextApi == Request \/ \E r \in Sids : RunStepWith(r, ConcResponses)

\* The creation endpoints under valid and invalid requests.
SpecApi == Init /\ [][NextApi]_vars

NextAdmin ==
    \/ Create
    \/ \E r \in Sids : RunStepWith(r, ConcResponses)
    \/ clear_messages
    \/ clear_calls
    \/ clear_callbacks
    \/ clear_all

\* One resource whose run interleaves with the administrative clear operations.
SpecAdmin == Init /\ [][NextAdmin]_vars

\* A message body is given by its length and by whether one of its characters
\* is above code point 127; the empty body has no such character.
InitSegments ==
    /\ config = [default_behavior |-> "success", enabled |-> TRUE,
                 retry_attempts |-> MaxAttempts]
    /\ messages = <<>>
    /\ calls = <<>>
    /\ delivery_events = [r \in Sids |-> <<>>]
    /\ callback_logs = [r \in Sids |-> <<>>]
    /\ runs = [r \in Sids |-> IdleRun]
    /\ trace = [r \in Sids |-> <<>>]
    /\ reply = NoReply
    /\ \E length \in 0 .. MaxBodyLen, non_ascii \in BOOLEAN :
          /\ non_ascii => length >= 1
          /\ segments = [length |-> length, non_ascii |-> non_ascii, num_segments |-> 0]

\* num_segments = calculate_sms_segments(body)
CountSegments ==
    /\ segments.num_segments = 0
    /\ segments' = [segments EXCEPT
                       !.num_segments =
                           calculate_sms_segments(segments.length, segments.non_ascii)]
    /\ UNCHANGED <<config, messages, calls, delivery_events, callback_logs, runs,
                   trace, reply>>

NextSegments == CountSegments

\* The segment count of one message body.
SpecSegments == InitSegments /\ [][NextSegments]_vars

-----------------------------------------------------------------------------
(* Vocabulary of the properties *)

\* The outcome the destination is classified to by the two number lists.
Outcome(to_number) ==
    IF to_number \in FailureNumbers THEN "Fail"
    ELSE IF to_number \in RegisteredNumbers THEN "Succeed"
    ELSE "Unknown"

Classified(r) == Exists(r) /\ Outcome(runs[r].to_number) # "Unknown"

\* The status sequence of a resource by kind and outcome.
Expected(r) ==
    IF Outcome(runs[r].to_number) = "Fail" THEN <<"failed">>
    ELSE IF Outcome(runs[r].to_number) = "Unknown" THEN <<>>
    ELSE IF r \in MessageSids THEN <<"sent", "delivered">>
    ELSE <<"ringing", "in-progress", "completed">>

\* The status a run leaves its resource at.
FinalStatus(r) == IF Expected(r) = <<>> THEN "queued" ELSE Last(Expected(r))

IsPrefix(s, t) == Len(s) <= Len(t) /\ \A i \in 1 .. Len(s) : s[i] = t[i]

Ops(r, op) == SelectSeq(trace[r], LAMBDA e : e.op = op)

StatusesOf(s) == [i \in 1 .. Len(s) |-> s[i].status]

\* The statuses run r handed to update_message_status / update_call_status, in order.
Writes(r) == StatusesOf(Ops(r, "update"))

\* The HTTP attempts of run r, in order, and those of one logical delivery.
Posts(r) == Ops(r, "post")

PostsFor(r, status) == SelectSeq(trace[r], LAMBDA e : e.op = "post" /\ e.status = status)

\* The Delivery Attempt log entries of one logical delivery, in insert order.
LogsFor(r, status) ==
    SelectSeq(callback_logs[r], LAMBDA e : PayloadStatus(r, e.payload) = status)

AttemptNumbers(s) == [i \in 1 .. Len(s) |-> s[i].attempt_number]

EventStatuses(r) == StatusesOf(delivery_events[r])

StoredStatus(r) ==
    IF r \in DOMAIN messages THEN messages[r].status
    ELSE IF r \in DOMAIN calls THEN calls[r].status
    ELSE "absent"

Is2xx(code) == code \in 200 .. 299

-----------------------------------------------------------------------------
(* C1 *)

\* C1: the status updates a message's run writes are a prefix of [sent, delivered]
\* when the destination is classified Succeed and of [failed] when it is
\* classified Fail, and the whole sequence once the run has returned; no other
\* value is ever written for a message, whatever the webhook answers and with or
\* without a webhook URL.
C1_MessageStatusSequence ==
    \A r \in MessageSids :
        /\ \A i \in 1 .. Len(Writes(r)) : Writes(r)[i] \in {"sent", "delivered", "failed"}
        /\ Classified(r) =>
              /\ IsPrefix(Writes(r),
                           IF Outcome(runs[r].to_number) = "Succeed"
                           THEN <<"sent", "delivered">> ELSE <<"failed">>)
              /\ runs[r].pc = "done" =>
                    Writes(r) = IF Outcome(runs[r].to_number) = "Succeed"
                                THEN <<"sent", "delivered">> ELSE <<"failed">>

\* A Succeed message whose run has returned after a failed webhook attempt.
C1_Witness ==
    \E r \in MessageSids :
        /\ runs[r].pc = "done"
        /\ Outcome(runs[r].to_number) = "Succeed"
        /\ Writes(r) = <<"sent", "delivered">>
        /\ \E i \in 1 .. Len(Posts(r)) : ~Is2xx(Posts(r)[i].code)

-----------------------------------------------------------------------------
(* C2 *)

\* C2: the status updates a call's run writes are a prefix of
\* [ringing, in-progress, completed] when the destination is classified Succeed
\* and of [failed] when it is classified Fail, and the whole sequence once the
\* run has returned; no other value is ever written for a call.
C2_CallStatusSequence ==
    \A r \in CallSids :
        /\ \A i \in 1 .. Len(Writes(r)) :
              Writes(r)[i] \in {"ringing", "in-progress", "completed", "failed"}
        /\ Classified(r) =>
              /\ IsPrefix(Writes(r),
                           IF Outcome(runs[r].to_number) = "Succeed"
                           THEN <<"ringing", "in-progress", "completed">>
                           ELSE <<"failed">>)
              /\ runs[r].pc = "done" =>
                    Writes(r) = IF Outcome(runs[r].to_number) = "Succeed"
                                THEN <<"ringing", "in-progress", "completed">>
                                ELSE <<"failed">>

\* A Succeed call whose run has returned, and which had a webhook URL.
C2_Witness ==
    \E r \in CallSids :
        /\ runs[r].pc = "done"
        /\ Outcome(runs[r].to_number) = "Succeed"
        /\ Writes(r) = <<"ringing", "in-progress", "completed">>
        /\ Len(Posts(r)) >= 3

-----------------------------------------------------------------------------
(* C3 *)

\* C3: for a resource whose destination is in neither list the run does nothing,
\* whatever will_succeed and callback_url are: no sleep, no status write (the
\* record stays queued), no webhook attempt, no Delivery Attempt log entry and no
\* Delivery Event.
C3_UnknownIsNoOp ==
    \A r \in Sids :
        (/\ Exists(r)
         /\ runs[r].to_number \notin RegisteredNumbers
         /\ runs[r].to_number \notin FailureNumbers)
        => /\ trace[r] = <<>>
           /\ callback_logs[r] = <<>>
           /\ delivery_events[r] = <<>>
           /\ StoredStatus(r) = "queued"
           /\ runs[r].pc \in {"scheduled", "done"}

\* The run of an unlisted destination has returned; it was handed
\* will_succeed = True and a webhook URL.
C3_Witness ==
    \E r \in Sids :
        /\ runs[r].pc = "done"
        /\ Outcome(runs[r].to_number) = "Unknown"
        /\ runs[r].will_succeed
        /\ runs[r].callback_url # NoUrl

-----------------------------------------------------------------------------
(* C4 *)

\* C4: webhook failure is not fatal to a run. Whatever the webhook answers, the
\* run of a classified resource never ends in an exception, its status updates
\* and its Delivery Events follow the sequence of its kind and outcome, every
\* written status gets its event before the next sleep, and the returned run has
\* written the whole sequence, recorded the whole sequence and left the record at
\* the final status.
C4_WebhookFailureNotFatal ==
    \A r \in Sids :
        Classified(r) =>
            /\ runs[r].pc # "crashed"
            /\ IsPrefix(Writes(r), Expected(r))
            /\ IsPrefix(EventStatuses(r), Writes(r))
            /\ Len(Writes(r)) - Len(EventStatuses(r)) \in {0, 1}
            /\ runs[r].pc \in {"sleep", "done"} => EventStatuses(r) = Writes(r)
            /\ runs[r].pc = "done" =>
                  /\ Writes(r) = Expected(r)
                  /\ EventStatuses(r) = Expected(r)
                  /\ StoredStatus(r) = Last(Expected(r))

\* A returned run every delivery of which exhausted its retries.
C4_Witness ==
    \E r \in Sids :
        /\ runs[r].pc = "done"
        /\ Outcome(runs[r].to_number) = "Succeed"
        /\ config.retry_attempts >= 2
        /\ Len(Posts(r)) = config.retry_attempts * Len(Expected(r))
        /\ \A i \in 1 .. Len(Posts(r)) : ~Is2xx(Posts(r)[i].code)
        /\ \E i \in 1 .. Len(Posts(r)) : Posts(r)[i].code = NoCode
        /\ \E i \in 1 .. Len(Posts(r)) : Posts(r)[i].code = 500

-----------------------------------------------------------------------------
(* C5 *)

\* C5: under fair scheduling and a repository that does not fail, the run of
\* every classified resource eventually returns with the record at the final
\* status of its sequence, whatever the webhook answers; once the run has
\* returned, it stays returned and the stored status does not change.
C5_RunsTerminate ==
    /\ \A r \in Sids :
          Classified(r) ~> (runs[r].pc = "done" /\ StoredStatus(r) = FinalStatus(r))
    /\ [][\A r \in Sids :
            runs[r].pc = "done" =>
                (runs'[r].pc = "done" /\ StoredStatus(r)' = StoredStatus(r))]_vars

\* A classified run has returned although its last delivery failed throughout.
C5_Witness ==
    \E r \in Sids :
        /\ Classified(r)
        /\ runs[r].pc = "done"
        /\ StoredStatus(r) = FinalStatus(r)
        /\ runs[r].callback_url # NoUrl
        /\ config.retry_attempts >= 1
        /\ ~runs[r].delivered

-----------------------------------------------------------------------------
(* C6, C7 *)

\* The i-th status run r wrote has been through the retry coordinator.
DeliveryOver(r, i) ==
    /\ i \in 1 .. Len(Writes(r))
    /\ i < Len(Writes(r)) \/ runs[r].pc \in {"event", "sleep", "done"}

OneTo(n) == [k \in 1 .. n |-> k]

\* C6: when the webhook target failed (non-2xx or transport error) on the first
\* N attempts of a delivery and answered 2xx on attempt N+1, with
\* retry_attempts >= N+1, the delivery has exactly N+1 log entries, numbered
\* 1, ..., N+1 in the order the attempts were made, and send_callback_with_retry
\* returned True.
C6_FailuresThenSuccess ==
    \A r \in Sids : \A i \in 1 .. Len(Writes(r)) :
        LET P == PostsFor(r, Writes(r)[i])
            L == LogsFor(r, Writes(r)[i])
        IN (/\ DeliveryOver(r, i)
            /\ Len(P) >= 1
            /\ Is2xx(P[Len(P)].code)
            /\ \A k \in 1 .. Len(P) - 1 : ~Is2xx(P[k].code)
            /\ config.retry_attempts >= Len(P))
           => /\ Len(L) = Len(P)
              /\ AttemptNumbers(L) = OneTo(Len(P))
              /\ \A k \in 1 .. Len(P) : P[k].attempt = k /\ L[k].status_code = P[k].code
              /\ i = Len(Writes(r)) => runs[r].delivered

\* The delivery of a call's second status failed with a transport error and then
\* got 200, after the first status had failed with a 500 and then got 200.
C6_Witness ==
    \E r \in CallSids :
        LET P == PostsFor(r, "in-progress")
            Q == PostsFor(r, "ringing")
        IN /\ runs[r].pc = "event"
           /\ CurrentStatus(r) = "in-progress"
           /\ Len(P) = 2 /\ P[1].code = NoCode /\ P[2].code = 200
           /\ Len(Q) = 2 /\ Q[1].code = 500 /\ Q[2].code = 200
           /\ Len(LogsFor(r, "in-progress")) = 2
           /\ runs[r].delivered

\* C7: when every attempt of a delivery failed, the delivery has exactly
\* retry_attempts log entries, numbered 1, ..., retry_attempts, and
\* send_callback_with_retry returned False; no attempt and no log entry ever
\* carries a number above retry_attempts.
C7_AllAttemptsFail ==
    \A r \in Sids :
        /\ \A k \in 1 .. Len(Posts(r)) : Posts(r)[k].attempt <= config.retry_attempts
        /\ \A k \in 1 .. Len(callback_logs[r]) :
              callback_logs[r][k].attempt_number <= config.retry_attempts
        /\ \A i \in 1 .. Len(Writes(r)) :
              LET P == PostsFor(r, Writes(r)[i])
                  L == LogsFor(r, Writes(r)[i])
              IN (/\ DeliveryOver(r, i)
                  /\ runs[r].callback_url # NoUrl
                  /\ config.retry_attempts >= 0
                  /\ \A k \in 1 .. Len(P) : ~Is2xx(P[k].code))
                 => /\ Len(P) = config.retry_attempts
                    /\ Len(L) = config.retry_attempts
                    /\ AttemptNumbers(L) = OneTo(config.retry_attempts)
                    /\ i = Len(Writes(r)) => ~runs[r].delivered

\* Two attempts allowed, two made for the current status: a 500 and a transport
\* error.
C7_Witness ==
    \E r \in Sids :
        LET P == PostsFor(r, CurrentStatus(r))
        IN /\ runs[r].pc = "event"
           /\ config.retry_attempts = 2
           /\ Len(P) = 2
           /\ P[1].code = 500 /\ P[2].code = NoCode
           /\ Len(LogsFor(r, CurrentStatus(r))) = 2
           /\ ~runs[r].delivered

-----------------------------------------------------------------------------
(* C8 *)

\* C8: within one logical delivery no HTTP attempt is made after an attempt the
\* webhook target answered with a 2xx status, whatever the target and the
\* repository's log append do.
C8_NoAttemptAfter2xx ==
    \A r \in Sids : \A i, j \in 1 .. Len(Posts(r)) :
        (/\ i < j
         /\ Posts(r)[i].status = Posts(r)[j].status
         /\ Is2xx(Posts(r)[i].code))
        => FALSE

-----------------------------------------------------------------------------
(* C9 *)

\* C9: every call of send_callback appends exactly one log entry, on the
\* response path and on the transport-failure path alike, carrying the attempt
\* number the caller supplied; the entry is there when the call returns, before
\* the retry loop decides.
C9_OneLogEntryPerCall ==
    \A r \in Sids :
        /\ Len(callback_logs[r]) = Len(Posts(r)) - (IF runs[r].pc = "log" THEN 1 ELSE 0)
        /\ \A k \in 1 .. Len(callback_logs[r]) :
              /\ callback_logs[r][k].attempt_number = Posts(r)[k].attempt
              /\ callback_logs[r][k].status_code = Posts(r)[k].code
              /\ PayloadStatus(r, callback_logs[r][k].payload) = Posts(r)[k].status
        /\ runs[r].pc = "decide" =>
              /\ Len(callback_logs[r]) >= 1
              /\ Last(callback_logs[r]).attempt_number = runs[r].attempt

\* send_callback has returned from its second attempt, a transport failure, and
\* the retry loop has not decided yet.
C9_Witness ==
    \E r \in Sids :
        /\ runs[r].pc = "decide"
        /\ runs[r].attempt = 2
        /\ runs[r].resp.kind = "exc"
        /\ Len(callback_logs[r]) = 2
        /\ Last(callback_logs[r]).status_code = NoCode
        /\ Last(callback_logs[r]).attempt_number = 2

-----------------------------------------------------------------------------
(* C10 *)

\* C10: every Delivery Attempt log entry stores a response body of at most 500
\* characters, for an HTTP response and for a transport failure alike.
C10_BodyAtMost500 ==
    \A r \in Sids : \A k \in 1 .. Len(callback_logs[r]) :
        callback_logs[r][k].response_body <= 500

-----------------------------------------------------------------------------
(* C11 *)

\* C11: when the webhook target answered with an HTTP status code c, the call
\* of send_callback returns success exactly when 200 <= c < 300; for every code
\* (1xx, 2xx, 3xx, 4xx, 5xx) the returned status code and the status code of
\* the entry the call logged are c, and the returned body is the whole response
\* text.
C11_SuccessIff2xx ==
    \A r \in Sids :
        (runs[r].pc = "decide" /\ runs[r].resp.kind = "http")
        => /\ runs[r].success <=> (200 <= runs[r].resp.code /\ runs[r].resp.code < 300)
           /\ runs[r].status_code = runs[r].resp.code
           /\ runs[r].response_body = runs[r].resp.len
           /\ Last(callback_logs[r]).status_code = runs[r].resp.code

\* send_callback has returned failure for a 300, the first code past the range.
C11_Witness ==
    \E r \in Sids :
        /\ runs[r].pc = "decide"
        /\ runs[r].resp.kind = "http"
        /\ runs[r].resp.code = 300
        /\ ~runs[r].success
        /\ runs[r].status_code = 300
        /\ Last(callback_logs[r]).status_code = 300

-----------------------------------------------------------------------------
(* C12 *)

\* C12 (as stated): on a transport-level failure send_callback returns
\* success = False, an absent status code and the stringified error as body,
\* and the entry it logged has an absent (null) status code.
C12_TransportFailureAbsentCode ==
    \A r \in Sids :
        (runs[r].pc = "decide" /\ runs[r].resp.kind = "exc")
        => /\ ~runs[r].success
           /\ runs[r].status_code = NoCode
           /\ runs[r].response_body = runs[r].resp.len
           /\ Last(callback_logs[r]).status_code = NoCode

\* C12 (amended): on a transport-level failure send_callback returns
\* success = False, the status code 0 and the stringified error as body; the
\* entry it logged has a null status code and the body "Error: " followed by
\* the stringified error.
C12_TransportFailureZeroCode ==
    \A r \in Sids :
        (runs[r].pc = "decide" /\ runs[r].resp.kind = "exc")
        => /\ ~runs[r].success
           /\ runs[r].status_code = 0
           /\ runs[r].response_body = runs[r].resp.len
           /\ Last(callback_logs[r]).status_code = NoCode
           /\ Last(callback_logs[r]).status_code # runs[r].status_code
           /\ Last(callback_logs[r]).response_body = ErrorPrefixLen + runs[r].resp.len

\* send_callback has returned from a transport failure with a 30-character
\* error description.
C12_Witness ==
    \E r \in Sids :
        /\ runs[r].pc = "decide"
        /\ runs[r].resp.kind = "exc"
        /\ runs[r].resp.len = 30
        /\ runs[r].status_code = 0
        /\ Last(callback_logs[r]).status_code = NoCode

-----------------------------------------------------------------------------
(* C13 *)

\* C13: for a destination in failure_numbers the outcome is Fail, whether or
\* not the destination is also in registered_numbers and whatever
\* default_behavior is: should_succeed returned False for it, and the resource
\* the API created writes only "failed" and is left at "failed" when its run
\* has returned.
C13_FailureListWins ==
    \A r \in Sids :
        (Exists(r) /\ runs[r].to_number \in FailureNumbers)
        => /\ ~runs[r].will_succeed
           /\ IsPrefix(Writes(r), <<"failed">>)
           /\ StoredStatus(r) \in {"queued", "failed"}
           /\ runs[r].pc = "done" =>
                 /\ Writes(r) = <<"failed">>
                 /\ EventStatuses(r) = <<"failed">>
                 /\ StoredStatus(r) = "failed"

\* A resource whose destination is in both lists, created under
\* default_behavior "success", has run to "failed".
C13_Witness ==
    \E r \in Sids :
        /\ runs[r].pc = "done"
        /\ runs[r].to_number \in FailureNumbers \cap RegisteredNumbers
        /\ config.default_behavior = "success"
        /\ ~runs[r].will_succeed
        /\ StoredStatus(r) = "failed"

-----------------------------------------------------------------------------
(* C14 *)

\* The outcome a returned run showed: which sequence it wrote.
ObservedOutcome(r) ==
    IF Writes(r) = <<>> THEN "Unknown"
    ELSE IF Writes(r) = <<"failed">> THEN "Fail"
    ELSE "Succeed"

-----------------------------------------------------------------------------
(* C15 *)

\* C15: should_succeed(to_number) for a destination in neither list returns
\* True when default_behavior is "success" and False when it is "failure": the
\* will_succeed the API hands to the run of such a resource is the default.
C15_DefaultBehaviorDecides ==
    \A r \in Sids :
        (Exists(r) /\ runs[r].to_number \notin RegisteredNumbers \cup FailureNumbers)
        => /\ config.default_behavior = "success" => runs[r].will_succeed
           /\ config.default_behavior = "failure" => ~runs[r].will_succeed

\* A resource with an unlisted destination was created under default_behavior
\* "success" and its run was handed will_succeed = True.
C15_Witness ==
    \E r \in Sids :
        /\ runs[r].pc = "scheduled"
        /\ runs[r].to_number \notin RegisteredNumbers \cup FailureNumbers
        /\ config.default_behavior = "success"
        /\ runs[r].will_succeed

-----------------------------------------------------------------------------
(* C16 *)

Codes(s) == [k \in 1 .. Len(s) |-> s[k].code]

\* The status index and the attempt number of each HTTP attempt of a run over
\* n statuses with at most max attempts per status, as fixed by the codes the
\* webhook target answered with.
RECURSIVE AttemptPlan(_, _, _, _, _)
AttemptPlan(codes, i, a, n, max) ==
    IF codes = <<>> \/ i > n THEN <<>>
    ELSE LET over == Is2xx(Head(codes)) \/ a >= max
         IN <<[idx |-> i, attempt |-> a]>>
            \o AttemptPlan(Tail(codes), IF over THEN i + 1 ELSE i,
                           IF over THEN 1 ELSE a + 1, n, max)

\* The creation request of resource r, as stored by the API.
RequestOf(r) == IF r \in MessageSids THEN messages[r] ELSE calls[r]

\* The body logged for the answer with the given code.
BodyFor(code) == LoggedBody(CHOOSE a \in Responses : a.code = code)

\* C16: default_behavior has no influence on the progression. What a resource's
\* run writes, posts, logs and records is the value of a function of the
\* creation request (kind, From, To, StatusCallback), of the codes the webhook
\* target answered with, and of callbacks.enabled and callbacks.retry_attempts;
\* the function reads neither default_behavior nor will_succeed. Two systems
\* that differ only in default_behavior and see the same requests and the same
\* answers therefore show the same status updates, the same log entries and the
\* same events.
C16_DefaultBehaviorNoInfluence ==
    \A r \in Sids :
        Exists(r) =>
            LET req  == RequestOf(r)
                E    == IF req.to_number \in FailureNumbers THEN <<"failed">>
                        ELSE IF req.to_number \notin RegisteredNumbers THEN <<>>
                        ELSE IF r \in MessageSids THEN <<"sent", "delivered">>
                        ELSE <<"ringing", "in-progress", "completed">>
                hook == /\ req.callback_url # NoUrl
                        /\ config.enabled
                        /\ config.retry_attempts >= 1
                P    == Posts(r)
                L    == callback_logs[r]
                plan == AttemptPlan(Codes(P), 1, 1, Len(E), config.retry_attempts)
            IN /\ IsPrefix(Writes(r), E)
               /\ IsPrefix(EventStatuses(r), E)
               /\ ~hook => P = <<>> /\ L = <<>>
               /\ Len(plan) = Len(P)
               /\ \A k \in 1 .. Len(P) :
                     /\ P[k].status = E[plan[k].idx]
                     /\ P[k].attempt = plan[k].attempt
               /\ Len(L) <= Len(P)
               /\ \A k \in 1 .. Len(L) :
                     L[k] = [target_url |-> req.callback_url,
                             payload |->
                                IF r \in MessageSids
                                THEN [MessageSid |-> r, AccountSid |-> AccountSid,
                                      From |-> req.from_number, To |-> req.to_number,
                                      MessageStatus |-> P[k].status,
                                      ApiVersion |-> "2010-04-01"]
                                ELSE [CallSid |-> r, AccountSid |-> AccountSid,
                                      From |-> req.from_number, To |-> req.to_number,
                                      CallStatus |-> P[k].status,
                                      ApiVersion |-> "2010-04-01",
                                      Direction |-> "outbound-api"],
                             status_code |-> P[k].code,
                             response_body |-> BodyFor(P[k].code),
                             attempt_number |-> plan[k].attempt]
               /\ runs[r].pc = "done" =>
                     /\ Writes(r) = E
                     /\ EventStatuses(r) = E
                     /\ StoredStatus(r) = IF E = <<>> THEN "queued" ELSE Last(E)
                     /\ Len(L) = Len(P)
                     /\ hook => \A i \in 1 .. Len(E) :
                           LET Q == PostsFor(r, E[i])
                           IN /\ Len(Q) >= 1
                              /\ Is2xx(Last(Q).code) \/ Len(Q) = config.retry_attempts

\* Under default_behavior "failure" the run of a message to a registered
\* destination has returned after a failure and a 200 for each status.
C16_Witness ==
    \E r \in MessageSids :
        /\ runs[r].pc = "done"
        /\ config.default_behavior = "failure"
        /\ Writes(r) = <<"sent", "delivered">>
        /\ runs[r].to_number \in RegisteredNumbers \ FailureNumbers
        /\ Codes(Posts(r)) = <<500, 200, NoCode, 200>>

-----------------------------------------------------------------------------
(* C17 *)

\* C17: in every step, however the runs of the resources interleave and
\* whatever the webhook answers, the stored status of a resource stays as it is
\* or moves to the next status of the sequence fixed by the resource's kind and
\* outcome ("queued" first); it never returns to an earlier status and never
\* takes a status of the other outcome's sequence.
C17_StatusMovesForward ==
    [][\A r \in Sids :
          \/ StoredStatus(r)' = StoredStatus(r)
          \/ StoredStatus(r) = "absent" /\ StoredStatus(r)' = "queued"
          \/ \E i \in 1 .. Len(Expected(r)) :
                /\ StoredStatus(r)' = Expected(r)[i]
                /\ StoredStatus(r) = IF i = 1 THEN "queued" ELSE Expected(r)[i - 1]]_vars

\* Two messages of different outcomes are both under way: the first has been
\* moved to "sent" and is retrying its webhook, the second has been moved to
\* "failed" and is waiting for its answer.
C17_Witness ==
    /\ StoredStatus("SM1") = "sent"
    /\ StoredStatus("SM2") = "failed"
    /\ runs["SM1"].pc = "retry_sleep"
    /\ runs["SM2"].pc = "post"

-----------------------------------------------------------------------------
(* C18 *)

\* C18: when the runs of several resources interleave, posting to the same
\* target URL, the log entries of one logical delivery (one resource, one
\* status) carry the attempt numbers 1, 2, ..., k in insert order, without gap
\* or duplicate, and there is one such entry for each attempt made.
C18_ContiguousAttemptNumbers ==
    \A r \in Sids : \A i \in 1 .. Len(Writes(r)) :
        LET L == LogsFor(r, Writes(r)[i])
            P == PostsFor(r, Writes(r)[i])
        IN /\ \A k \in 1 .. Len(L) : L[k].attempt_number = k
           /\ Len(L) \in {Len(P), Len(P) - 1}
           /\ \A k \in 1 .. Len(P) : P[k].attempt = k

\* A message and a call post to the same URL at the same time; each has logged
\* attempts 1 and 2 of its current delivery, and the message's entries were
\* made while the call was in its retry loop.
C18_Witness ==
    \E m \in MessageSids, c \in CallSids :
        /\ runs[m].callback_url = runs[c].callback_url
        /\ runs[m].callback_url # NoUrl
        /\ runs[m].pc = "decide" /\ runs[c].pc = "decide"
        /\ AttemptNumbers(LogsFor(m, CurrentStatus(m))) = <<1, 2>>
        /\ AttemptNumbers(LogsFor(c, CurrentStatus(c))) = <<1, 2>>
        /\ CurrentStatus(c) = "in-progress"

-----------------------------------------------------------------------------
(* C19 *)

\* C19: when a resource classified Succeed or Fail was created without a
\* webhook URL, its run makes no HTTP attempt, never enters the retry sleep and
\* appends no log entry, and still writes every status of its sequence, records
\* every event and leaves the record at the final status.
C19_NoUrlNoAttempt ==
    \A r \in Sids :
        (Classified(r) /\ RequestOf(r).callback_url = NoUrl)
        => /\ Posts(r) = <<>>
           /\ Ops(r, "retry_sleep") = <<>>
           /\ callback_logs[r] = <<>>
           /\ runs[r].pc \notin {"post", "log", "decide", "retry_sleep", "crashed"}
           /\ IsPrefix(Writes(r), Expected(r))
           /\ runs[r].pc = "done" =>
                 /\ Writes(r) = Expected(r)
                 /\ EventStatuses(r) = Expected(r)
                 /\ StoredStatus(r) = Last(Expected(r))

\* A call created without a StatusCallback, with callbacks enabled and retries
\* configured, has run through its whole sequence.
C19_Witness ==
    \E r \in CallSids :
        /\ runs[r].pc = "done"
        /\ RequestOf(r).callback_url = NoUrl
        /\ config.enabled
        /\ config.retry_attempts >= 1
        /\ Writes(r) = <<"ringing", "in-progress", "completed">>
        /\ StoredStatus(r) = "completed"

-----------------------------------------------------------------------------
(* C20 *)

\* C20: when callbacks.enabled is false, no run of a resource created through
\* the API makes an HTTP attempt or appends a log entry, also when the request
\* carried a StatusCallback URL, and the run of a classified resource still
\* writes every status of its sequence and leaves the record at the final
\* status.
C20_DisabledNoAttempt ==
    ~config.enabled =>
        \A r \in Sids :
            Exists(r) =>
                /\ Posts(r) = <<>>
                /\ callback_logs[r] = <<>>
                /\ runs[r].callback_url = NoUrl
                /\ (Classified(r) /\ runs[r].pc = "done") =>
                      /\ Writes(r) = Expected(r)
                      /\ EventStatuses(r) = Expected(r)
                      /\ StoredStatus(r) = Last(Expected(r))

\* With callbacks disabled, a message created with a StatusCallback URL has run
\* through its whole sequence.
C20_Witness ==
    \E r \in MessageSids :
        /\ ~config.enabled
        /\ config.retry_attempts >= 1
        /\ runs[r].pc = "done"
        /\ RequestOf(r).callback_url # NoUrl
        /\ Writes(r) = <<"sent", "delivered">>
        /\ StoredStatus(r) = "delivered"

-----------------------------------------------------------------------------
(* C21 *)

\* C21: a failure of a repository write during a run (status update, log
\* append, event append) stops that run: the raising call is the last thing the
\* run does, no status update, webhook attempt, log entry or event of that
\* resource follows it.
C21_StorageFailureStopsRun ==
    \A r \in Sids : \A k \in 1 .. Len(trace[r]) :
        trace[r][k].op = "raise" =>
            /\ k = Len(trace[r])
            /\ runs[r].pc = "crashed"

-----------------------------------------------------------------------------
(* C22 *)

\* The identifiers that have a resource record, and those that have a run.
Records == DOMAIN messages \cup DOMAIN calls

Scheduled == {r \in Sids : Exists(r)}

\* C22: every accepted creation request creates exactly one resource record
\* and schedules exactly one run, for the same new identifier. In every step
\* the records and the runs are over the same identifiers; a step either leaves
\* both sets alone or adds one and the same identifier to both, answering 201
\* with the record at "queued" and the run not yet started; no step of a run
\* adds a record or a run, and a run that exists is never scheduled again.
C22_OneRecordOneRun ==
    [][/\ Records' = Scheduled'
       /\ \/ Records' = Records /\ Scheduled' = Scheduled
          \/ \E r \in Sids \ Records :
                /\ Records' = Records \cup {r}
                /\ Scheduled' = Scheduled \cup {r}
                /\ runs'[r].pc = "scheduled"
                /\ StoredStatus(r)' = "queued"
                /\ reply'.code = HttpCreated
                /\ \A q \in Sids \ {r} : runs'[q] = runs[q] /\ trace'[q] = trace[q]
       /\ \A r \in Scheduled :
             runs'[r].pc = "scheduled" => runs[r].pc = "scheduled"]_vars

\* Two requests were accepted, one for a message and one for a call; the
\* message's run has returned, the call's run has not started.
C22_Witness ==
    /\ Records = {"SM1", "CA1"}
    /\ Scheduled = {"SM1", "CA1"}
    /\ runs["SM1"].pc = "done"
    /\ runs["CA1"].pc = "scheduled"

-----------------------------------------------------------------------------
(* C23 *)

\* The position of a status in the sequence of resource r.
IndexOf(r, status) == CHOOSE i \in 1 .. Len(Expected(r)) : Expected(r)[i] = status

\* The operations of run r that concern a status.
StatusOps(r) == SelectSeq(trace[r], LAMBDA e : e.op \in {"update", "post", "log", "event"})

\* C23: within one run the steps are strictly sequential. The status updates
\* and webhook attempts of a resource occur in the order of its sequence; an
\* attempt is logged and over before the next attempt or status update begins;
\* and when status s_(i+1) is persisted, the delivery of s_i is complete: no
\* attempt was due, or the last attempt was answered 2xx, or retry_attempts
\* attempts were made.
C23_StrictlySequential ==
    \A r \in Sids :
        Classified(r) =>
            LET T == StatusOps(r)
            IN /\ \A k, l \in 1 .. Len(T) :
                     k < l => IndexOf(r, T[k].status) <= IndexOf(r, T[l].status)
               /\ \A k \in 1 .. Len(T) - 1 :
                     T[k].op = "post" =>
                        /\ T[k + 1].op = "log"
                        /\ T[k + 1].status = T[k].status
                        /\ T[k + 1].attempt = T[k].attempt
               /\ (Len(T) >= 1 /\ T[Len(T)].op = "post") => runs[r].pc = "log"
               /\ \A i \in 2 .. Len(Writes(r)) :
                     LET Q == PostsFor(r, Writes(r)[i - 1])
                     IN \/ Q = <<>> /\ (runs[r].callback_url = NoUrl \/ config.retry_attempts < 1)
                        \/ /\ Q # <<>>
                           /\ Len(LogsFor(r, Writes(r)[i - 1])) = Len(Q)
                           /\ Is2xx(Last(Q).code) \/ Len(Q) = config.retry_attempts

\* A call's third status has been persisted after the delivery of the second
\* exhausted its two attempts and that of the first succeeded at once.
C23_Witness ==
    \E r \in CallSids :
        /\ Writes(r) = <<"ringing", "in-progress", "completed">>
        /\ Codes(PostsFor(r, "ringing")) = <<200>>
        /\ Codes(PostsFor(r, "in-progress")) = <<500, NoCode>>
        /\ runs[r].pc = "post"

-----------------------------------------------------------------------------
(* C24 *)

\* C24: a run changes the stored status of its own resource only. In every
\* step of two interleaved runs, a resource whose stored status changes is the
\* one whose run has just made a status update (or the resource is being
\* created); and whatever the other run did in between, a returned run has
\* written the sequence of its own kind and outcome and left its record at the
\* final status of that sequence.
C24_OwnStatusOnly ==
    /\ [][\A r \in Sids :
             StoredStatus(r)' # StoredStatus(r) =>
                \/ StoredStatus(r) = "absent"
                \/ /\ Len(trace'[r]) = Len(trace[r]) + 1
                   /\ Last(trace'[r]).op = "update"
                   /\ Last(trace'[r]).status = StoredStatus(r)'
                   /\ \A q \in Sids \ {r} : trace'[q] = trace[q]]_vars
    /\ [](\A r \in Sids :
             runs[r].pc = "done" =>
                /\ Writes(r) = Expected(r)
                /\ StoredStatus(r) = FinalStatus(r))

\* The run of the first message has returned at "delivered" while the second
\* message, of the other outcome, is at "failed" with its webhook under way.
C24_Witness ==
    /\ runs["SM1"].pc = "done"
    /\ StoredStatus("SM1") = "delivered"
    /\ StoredStatus("SM2") = "failed"
    /\ runs["SM2"].pc = "log"
    /\ Len(Posts("SM1")) >= 2

-----------------------------------------------------------------------------
(* C25 *)

\* The run is inside the delivery of its current status.
InDelivery(r) == runs[r].pc \in {"post", "log", "decide", "retry_sleep"}

\* C25: the payload of every webhook attempt, as logged with the attempt, has
\* the SID of the run's resource, the From and To of its record, the account
\* SID, ApiVersion "2010-04-01" (and, for a call, Direction "outbound-api") and
\* no other field; its status field is the status of the attempt, which is the
\* status stored for the resource all through the delivery; and the retries of
\* one delivery carry the identical payload.
C25_PayloadOfAttempt ==
    \A r \in Sids :
        /\ \A k \in 1 .. Len(callback_logs[r]) :
              LET p == callback_logs[r][k].payload
              IN /\ p.AccountSid = AccountSid
                 /\ p.From = RequestOf(r).from_number
                 /\ p.To = RequestOf(r).to_number
                 /\ p.ApiVersion = "2010-04-01"
                 /\ IF r \in MessageSids
                    THEN /\ DOMAIN p = {"MessageSid", "AccountSid", "From", "To",
                                        "MessageStatus", "ApiVersion"}
                         /\ p.MessageSid = r
                         /\ p.MessageStatus = Posts(r)[k].status
                    ELSE /\ DOMAIN p = {"CallSid", "AccountSid", "From", "To",
                                        "CallStatus", "ApiVersion", "Direction"}
                         /\ p.CallSid = r
                         /\ p.CallStatus = Posts(r)[k].status
                         /\ p.Direction = "outbound-api"
        /\ \A k, l \in 1 .. Len(callback_logs[r]) :
              Posts(r)[k].status = Posts(r)[l].status =>
                 callback_logs[r][k].payload = callback_logs[r][l].payload
        /\ InDelivery(r) =>
              /\ StoredStatus(r) = Last(Writes(r))
              /\ (runs[r].pc # "post" \/ runs[r].attempt > 1) =>
                    /\ Posts(r) # <<>>
                    /\ Last(Posts(r)).status = StoredStatus(r)

\* A message's second delivery has logged two attempts with the payload of
\* "delivered", after the first delivery logged one with the payload of "sent".
C25_Witness ==
    \E r \in MessageSids :
        /\ runs[r].pc = "decide"
        /\ Len(callback_logs[r]) = 3
        /\ callback_logs[r][1].payload.MessageStatus = "sent"
        /\ callback_logs[r][2].payload.MessageStatus = "delivered"
        /\ callback_logs[r][3].payload = callback_logs[r][2].payload
        /\ StoredStatus(r) = "delivered"

-----------------------------------------------------------------------------
(* C26 *)

\* C26: "queued" is written at creation only. No run ever hands "queued" to a
\* status update, posts or logs a webhook whose status is "queued", or records
\* a Delivery Event with status "queued"; a record that is at "queued" has not
\* been written by its run.
C26_QueuedOnlyAtCreation ==
    \A r \in Sids :
        /\ \A k \in 1 .. Len(trace[r]) : trace[r][k].status # "queued"
        /\ \A k \in 1 .. Len(callback_logs[r]) :
              PayloadStatus(r, callback_logs[r][k].payload) # "queued"
        /\ \A k \in 1 .. Len(delivery_events[r]) : delivery_events[r][k].status # "queued"
        /\ StoredStatus(r) = "queued" => Writes(r) = <<>>
        /\ (Exists(r) /\ Writes(r) = <<>>) => StoredStatus(r) = "queued"

\* A message's run has written, posted and recorded both of its statuses.
C26_Witness ==
    \E r \in MessageSids :
        /\ runs[r].pc = "done"
        /\ Writes(r) = <<"sent", "delivered">>
        /\ Len(callback_logs[r]) >= 2
        /\ Len(delivery_events[r]) = 2

-----------------------------------------------------------------------------
(* C27 *)

\* C27: for a resource classified Succeed or Fail that was created with a
\* webhook URL, with callbacks enabled and retry_attempts >= 1, every status of
\* the sequence gets at least one and at most retry_attempts webhook attempts,
\* each of them logged; the run makes at most (length of the sequence) times
\* retry_attempts attempts, and the returned run has delivered every status.
C27_BoundedAttemptsPerStatus ==
    \A r \in Sids :
        (/\ Classified(r)
         /\ RequestOf(r).callback_url # NoUrl
         /\ config.enabled
         /\ config.retry_attempts >= 1)
        => /\ \A i \in 1 .. Len(Writes(r)) :
                 LET Q == PostsFor(r, Writes(r)[i])
                     L == LogsFor(r, Writes(r)[i])
                 IN /\ Len(Q) <= config.retry_attempts
                    /\ Len(L) <= Len(Q)
                    /\ DeliveryOver(r, i) => Len(Q) >= 1 /\ Len(L) = Len(Q)
           /\ Len(Posts(r)) <= Len(Expected(r)) * config.retry_attempts
           /\ runs[r].pc = "done" =>
                 /\ Len(Writes(r)) = Len(Expected(r))
                 /\ Len(callback_logs[r]) = Len(Posts(r))
                 /\ Len(Posts(r)) >= Len(Expected(r))

\* A call's run has returned after one attempt for its first status and two,
\* the most allowed, for each of the other two.
C27_Witness ==
    \E r \in CallSids :
        /\ runs[r].pc = "done"
        /\ config.retry_attempts = 2
        /\ Len(PostsFor(r, "ringing")) = 1
        /\ Len(PostsFor(r, "in-progress")) = 2
        /\ Len(PostsFor(r, "completed")) = 2
        /\ Len(callback_logs[r]) = 5

-----------------------------------------------------------------------------
(* C28 *)

MessageEvents(events) ==
    [r \in Sids |-> SelectSeq(events[r], LAMBDA e : e.message_sid # "None")]

CallEvents(events) ==
    [r \in Sids |-> SelectSeq(events[r], LAMBDA e : e.call_sid # "None")]

NoRows(table) == \A r \in Sids : table[r] = <<>>

\* C28: clear_messages deletes every message record and every Delivery Event
\* attached to a message, answers with the number of message records there were
\* before the call, and leaves call records, the Delivery Events of calls and
\* the Delivery Attempt logs as they were; clear_calls is the mirror image for
\* calls; clear_callbacks removes the Delivery Attempt logs, answers with their
\* number, and leaves records and Delivery Events as they were.
C28_ClearOperations ==
    [][/\ reply'.status = "messages" =>
             /\ messages' = <<>>
             /\ NoRows(MessageEvents(delivery_events'))
             /\ reply'.deleted.messages = Cardinality(DOMAIN messages)
             /\ calls' = calls
             /\ CallEvents(delivery_events') = CallEvents(delivery_events)
             /\ callback_logs' = callback_logs
       /\ reply'.status = "calls" =>
             /\ calls' = <<>>
             /\ NoRows(CallEvents(delivery_events'))
             /\ reply'.deleted.calls = Cardinality(DOMAIN calls)
             /\ messages' = messages
             /\ MessageEvents(delivery_events') = MessageEvents(delivery_events)
             /\ callback_logs' = callback_logs
       /\ reply'.status = "callbacks" =>
             /\ NoRows(callback_logs')
             /\ reply'.deleted.callbacks = RowCount(callback_logs, Sids)
             /\ messages' = messages
             /\ calls' = calls
             /\ delivery_events' = delivery_events]_vars

\* clear_messages has answered 2 on a store that held two messages, a call, a
\* Delivery Event of the call and log entries, all of which are still there.
C28_Witness ==
    /\ reply.status = "messages"
    /\ reply.deleted.messages = 2
    /\ messages = <<>>
    /\ NoRows(MessageEvents(delivery_events))
    /\ DOMAIN calls = {"CA1"}
    /\ Len(delivery_events["CA1"]) = 2
    /\ RowCount(callback_logs, Sids) >= 3

-----------------------------------------------------------------------------
(* C29 *)

\* C29: for each status s of a run the steps happen in this order: s is
\* persisted; then the webhook attempts for s are made, each logged before the
\* next, with a retry sleep between two attempts (none when no URL was handed
\* to the run or no attempt is allowed); then the Delivery Event for s is
\* appended; then, if s is not the final status, the run sleeps and persists
\* the next status. No webhook for s precedes the update of s, and the event
\* for s follows the last attempt for s and precedes the next update.
C29_StepOrderPerStatus ==
    \A r \in Sids :
        LET T == trace[r]
            hook == runs[r].callback_url # NoUrl /\ config.retry_attempts >= 1
        IN /\ T # <<>> => T[1].op = "sleep"
           /\ \A k \in 1 .. Len(T) - 1 :
                 LET a == T[k]
                     b == T[k + 1]
                 IN /\ a.op = "sleep" => b.op = "update"
                    /\ a.op = "update" =>
                          /\ b.op = IF hook THEN "post" ELSE "event"
                          /\ b.status = a.status
                    /\ a.op = "post" => b.op = "log" /\ b.status = a.status
                    /\ a.op = "log" =>
                          /\ b.op \in {"retry_sleep", "event"}
                          /\ b.status = a.status
                    /\ a.op = "retry_sleep" => b.op = "post" /\ b.status = a.status
                    /\ a.op = "event" =>
                          /\ b.op = "sleep"
                          /\ a.status # Last(Expected(r))
           /\ \A k \in 1 .. Len(T) :
                 (T[k].op = "event" /\ T[k].status = Last(Expected(r))) => k = Len(T)
           /\ \A k \in 1 .. Len(T) :
                 T[k].op \in {"post", "log", "retry_sleep", "event"} =>
                    \E j \in 1 .. k - 1 :
                       /\ T[j].op = "update"
                       /\ T[j].status = T[k].status
                       /\ \A i \in j + 1 .. k - 1 : T[i].op # "update"
           /\ EventStatuses(r) = StatusesOf(Ops(r, "event"))

\* A message's run has persisted "sent", failed one attempt, slept, succeeded
\* with the second, recorded the event, slept and persisted "delivered".
C29_Witness ==
    \E r \in MessageSids :
        /\ Len(trace[r]) = 10
        /\ [k \in 1 .. 10 |-> trace[r][k].op] =
              <<"sleep", "update", "post", "log", "retry_sleep", "post", "log",
                "event", "sleep", "update">>
        /\ trace[r][10].status = "delivered"

-----------------------------------------------------------------------------
(* C30 *)

Sleeps(r) == Ops(r, "sleep")

\* C30: a run over a sequence of n statuses performs exactly n inter-status
\* sleeps: one before the first status update and one between each pair of
\* consecutive statuses. Every status update directly follows a sleep of its
\* own, no sleep follows the final status (the returned run ends with the event
\* of the final status), and retry delays are not among these sleeps.
C30_OneSleepPerStatus ==
    \A r \in Sids :
        Classified(r) =>
            LET T == trace[r]
            IN /\ Len(Sleeps(r)) = Len(Writes(r)) + (IF runs[r].pc = "sleep" THEN 1 ELSE 0)
               /\ Len(Sleeps(r)) <= Len(Expected(r))
               /\ \A k \in 1 .. Len(T) :
                     T[k].op = "update" => k >= 2 /\ T[k - 1].op = "sleep"
               /\ \A k \in 1 .. Len(T) - 1 :
                     T[k].op = "sleep" => T[k + 1].op = "update"
               /\ runs[r].pc # "scheduled" => T # <<>> /\ T[1].op = "sleep"
               /\ runs[r].pc = "done" =>
                     /\ Len(Sleeps(r)) = Len(Expected(r))
                     /\ Last(T).op = "event"
                     /\ Last(T).status = Last(Expected(r))

\* A call's run has returned after three sleeps, with retry delays in between
\* that do not count.
C30_Witness ==
    \E r \in CallSids :
        /\ runs[r].pc = "done"
        /\ Len(Sleeps(r)) = 3
        /\ Len(Writes(r)) = 3
        /\ Len(Ops(r, "retry_sleep")) >= 2

-----------------------------------------------------------------------------
(* C31 *)

\* The retry-delay sleeps of one logical delivery, in order.
RetrySleepsFor(r, status) ==
    SelectSeq(trace[r], LAMBDA e : e.op = "retry_sleep" /\ e.status = status)

\* C31: a logical delivery that made k attempts has taken exactly k-1 retry
\* delays, the j-th of them between attempt j and attempt j+1. A delay follows
\* every failed attempt that is not the retry_attempts-th; no delay follows an
\* attempt answered 2xx or the retry_attempts-th attempt.
C31_RetrySleepsBetweenAttempts ==
    \A r \in Sids :
        /\ \A i \in 1 .. Len(Writes(r)) :
              LET Q == PostsFor(r, Writes(r)[i])
                  S == RetrySleepsFor(r, Writes(r)[i])
              IN /\ \A j \in 1 .. Len(S) :
                       /\ S[j].attempt = j
                       /\ j <= Len(Q)
                       /\ ~Is2xx(Q[j].code)
                       /\ j < config.retry_attempts
                 /\ DeliveryOver(r, i) => Len(S) = (IF Q = <<>> THEN 0 ELSE Len(Q) - 1)
                 /\ Len(S) \in {Len(Q), Len(Q) - 1} \/ Q = <<>>
        /\ \A k \in 1 .. Len(trace[r]) :
              trace[r][k].op = "retry_sleep" =>
                 /\ k >= 3
                 /\ trace[r][k - 1].op = "log"
                 /\ trace[r][k - 2].op = "post"
                 /\ k < Len(trace[r]) =>
                       /\ trace[r][k + 1].op = "post"
                       /\ trace[r][k + 1].attempt = trace[r][k].attempt + 1
                       /\ trace[r][k + 1].status = trace[r][k].status

\* The delivery of "sent" succeeded with its second attempt after one delay;
\* that of "delivered" failed twice, with one delay and none after the last.
C31_Witness ==
    \E r \in MessageSids :
        /\ runs[r].pc = "done"
        /\ config.retry_attempts = 2
        /\ Codes(PostsFor(r, "sent")) = <<500, 200>>
        /\ Len(RetrySleepsFor(r, "sent")) = 1
        /\ Codes(PostsFor(r, "delivered")) = <<NoCode, 500>>
        /\ Len(RetrySleepsFor(r, "delivered")) = 1

-----------------------------------------------------------------------------
(* C32 *)

\* C32: the returned run of a resource classified Succeed or Fail has appended
\* exactly one Delivery Event per status of its sequence, in sequence order,
\* each of kind "status_update" and referencing that resource only (a message's
\* events carry no call id, a call's events no message id), with or without a
\* webhook URL and whatever the webhook answered; before the run returns the
\* events are a prefix of these.
C32_OneEventPerStatus ==
    \A r \in Sids :
        Classified(r) =>
            LET wanted == [i \in 1 .. Len(Expected(r)) |->
                              [message_sid |-> IF r \in MessageSids THEN r ELSE "None",
                               call_sid |-> IF r \in CallSids THEN r ELSE "None",
                               event_type |-> "status_update",
                               status |-> Expected(r)[i]]]
            IN /\ IsPrefix(delivery_events[r], wanted)
               /\ runs[r].pc = "done" => delivery_events[r] = wanted
               /\ \A q \in Sids \ {r} : \A k \in 1 .. Len(delivery_events[q]) :
                     /\ delivery_events[q][k].message_sid # r
                     /\ delivery_events[q][k].call_sid # r

\* A call's run has returned with three events after every webhook attempt
\* failed.
C32_Witness ==
    \E r \in CallSids :
        /\ runs[r].pc = "done"
        /\ Len(delivery_events[r]) = 3
        /\ delivery_events[r][3].status = "completed"
        /\ delivery_events[r][3].message_sid = "None"
        /\ Len(Posts(r)) = 6
        /\ \A k \in 1 .. Len(Posts(r)) : ~Is2xx(Posts(r)[k].code)

\* C33: a creation request that fails validation is rejected without side
\* effects. The answer is 401 "auth_failed" exactly when the credentials fail;
\* otherwise 400 "missing_parameter" when a required parameter is missing;
\* otherwise 400 "invalid_phone_number" when a phone number is malformed;
\* otherwise 400 "invalid_from_number" when From is not an allowed number;
\* otherwise the request is accepted with 201. A step whose answer is a
\* rejection leaves the records, the runs, the Delivery Attempt log, the
\* Delivery Events and every run's operations as they were.
C33_RejectedWithoutSideEffects ==
    /\ [](reply # NoReply =>
             LET q == reply.request
             IN IF ~q.auth
                THEN reply.code = 401 /\ reply.error_type = "auth_failed"
                ELSE IF ~q.params
                THEN reply.code = 400 /\ reply.error_type = "missing_parameter"
                ELSE IF ~q.phone_format
                THEN reply.code = 400 /\ reply.error_type = "invalid_phone_number"
                ELSE IF q.From \notin AllowedFromNumbers
                THEN reply.code = 400 /\ reply.error_type = "invalid_from_number"
                ELSE reply.code = HttpCreated /\ reply.error_type = "")
    /\ [][(reply' # reply /\ reply'.code \in {400, 401}) =>
             UNCHANGED <<messages, calls, runs, callback_logs, delivery_events, trace>>
         ]_vars

\* C33 witness: a request with bad credentials and a missing parameter, an
\* invalid To and a From outside the allowed numbers is answered 401 while
\* the run of an accepted message is between two webhook attempts.
C33_Witness ==
    /\ reply.code = 401
    /\ ~reply.request.params
    /\ ~reply.request.phone_format
    /\ reply.request.From \notin AllowedFromNumbers
    /\ \E r \in MessageSids :
          /\ runs[r].pc = "retry_sleep"
          /\ Records = {r}
          /\ Len(callback_logs[r]) = 1

\* C34: the resource record is persisted with status "queued" before its run
\* is scheduled. A run, an operation of a run, a Delivery Attempt log entry or
\* a Delivery Event exists only for a resource whose record exists; the step
\* that schedules a run leaves its record at "queued", the record stays at
\* "queued" until the run's first status update, and that first update replaces
\* "queued" by the first status of the run's sequence.
C34_RecordBeforeRun ==
    /\ [](\A r \in Sids :
             /\ (Exists(r) \/ trace[r] # <<>> \/ callback_logs[r] # <<>>
                    \/ delivery_events[r] # <<>>) => r \in Records
             /\ (Exists(r) /\ Writes(r) = <<>>) => StoredStatus(r) = "queued")
    /\ [][\A r \in Sids :
             /\ (~Exists(r) /\ Exists(r)') =>
                    /\ runs'[r].pc = "scheduled"
                    /\ StoredStatus(r)' = "queued"
             /\ (Writes(r) = <<>> /\ Writes(r)' # <<>>) =>
                    /\ StoredStatus(r) = "queued"
                    /\ StoredStatus(r)' = Expected(r)[1]
                    /\ StoredStatus(r)' # "queued"
         ]_vars

\* C34 witness: a call's run has written its first status, "ringing", over
\* "queued" and has made one webhook attempt for it.
C34_Witness ==
    \E r \in CallSids :
        /\ Writes(r) = <<"ringing">>
        /\ StoredStatus(r) = "ringing"
        /\ Len(Posts(r)) = 1
        /\ delivery_events[r] = <<>>

C36_AnswerIsAlwaysQueued ==
    /\ [][\A r \in Sids :
             (~Exists(r) /\ Exists(r)') =>
                /\ reply'.code = HttpCreated
                /\ reply'.status = "queued"
                /\ reply'.error_type = ""
                /\ reply'.request.To = runs'[r].to_number
                /\ StoredStatus(r)' = "queued"
         ]_vars
    /\ [](\A r \in Sids :
             Exists(r) => reply.code = HttpCreated /\ reply.status = "queued")

\* C36 witness: a message to a number classified Fail was answered 201
\* "queued", and its run has since left the record at "failed".
C36_Witness ==
    \E r \in MessageSids :
        /\ Outcome(reply.request.To) = "Fail"
        /\ reply.code = HttpCreated
        /\ reply.status = "queued"
        /\ runs[r].pc = "done"
        /\ StoredStatus(r) = "failed"

\* C37: when retry_attempts is configured as 0 or negative, the delivery of a
\* status makes no HTTP attempt, takes no retry sleep, appends no Delivery
\* Attempt log entry and reports failure, and the run still writes every status
\* of its sequence and records a Delivery Event for each.
C37_NoAttemptsConfigured ==
    config.retry_attempts <= 0 =>
        \A r \in Sids :
            /\ Posts(r) = <<>>
            /\ Ops(r, "retry_sleep") = <<>>
            /\ callback_logs[r] = <<>>
            /\ ~runs[r].delivered
            /\ Classified(r) =>
                  /\ IsPrefix(Writes(r), Expected(r))
                  /\ IsPrefix(EventStatuses(r), Expected(r))
                  /\ runs[r].pc = "done" =>
                        /\ Writes(r) = Expected(r)
                        /\ EventStatuses(r) = Expected(r)
                        /\ StoredStatus(r) = FinalStatus(r)

\* C37 witness: with retry_attempts negative and callbacks enabled, the run
\* of a message that has a webhook URL has returned after writing and recording
\* "sent" and "delivered" without any attempt.
C37_Witness ==
    \E r \in MessageSids :
        /\ config.retry_attempts < 0
        /\ runs[r].callback_url # NoUrl
        /\ runs[r].pc = "done"
        /\ Writes(r) = <<"sent", "delivered">>
        /\ EventStatuses(r) = <<"sent", "delivered">>
        /\ Posts(r) = <<>>
        /\ callback_logs[r] = <<>>

\* C38: calculate_sms_segments returns 1 for the empty body and for a body of
\* at most 160 characters (at most 70 when it contains a character above code
\* point 127), and otherwise the least n with n * 153 >= L (n * 67 >= L for
\* such bodies); lengths 160, 161, 306, 307 give 1, 2, 2, 3 and non-ASCII
\* lengths 70, 71, 134, 135 give 1, 2, 2, 3.
C38_SegmentCount ==
    segments.num_segments # 0 =>
        LET L == segments.length
            n == segments.num_segments
            single == IF segments.non_ascii THEN 70 ELSE 160
            multi == IF segments.non_ascii THEN 67 ELSE 153
        IN /\ L <= single => n = 1
           /\ L > single => (n - 1) * multi < L /\ L <= n * multi
           /\ (~segments.non_ascii /\ L = 160) => n = 1
           /\ (~segments.non_ascii /\ L = 161) => n = 2
           /\ (~segments.non_ascii /\ L = 306) => n = 2
           /\ (~segments.non_ascii /\ L = 307) => n = 3
           /\ (segments.non_ascii /\ L = 70) => n = 1
           /\ (segments.non_ascii /\ L = 71) => n = 2
           /\ (segments.non_ascii /\ L = 134) => n = 2
           /\ (segments.non_ascii /\ L = 135) => n = 3

\* C38 witness: an ASCII body of 307 characters was counted as 3 segments.
C38_Witness ==
    segments = [length |-> 307, non_ascii |-> FALSE, num_segments |-> 3]

====
